---- MODULE Spec2Model ----
(***************************************************************************)
(* State-machine model of the client-side integration layer:               *)
(*   - app/lib/pdf2img.ts : loadPdfJs (memoized engine initializer) and    *)
(*     convertPdfToImage (first page of a PDF -> PNG File + object URL);   *)
(*   - the usePuterStore store: init (polling for window.puter) and the    *)
(*     auth operations (checkAuthStatus, refreshUser, signIn, signOut).    *)
(* Every await is a suspension point: an action is the synchronous run of  *)
(* the code between two suspension points.                                 *)
(***************************************************************************)
EXTENDS Integers, Sequences, FiniteSets, TLC

\* ------------------------------------------------------------------ bounds
\* Number of convertPdfToImage invocations in one process.
NumCalls == 2
\* Longest generated file name (in characters) of the name derivation check.
MaxNameLen == 5
\* Number of user-initiated store operations that may be in flight at once.
NumOps == 1

\* ------------------------------------------------------- program constants
\* page.getViewport({ scale: 3 })
Scale == 3
\* setInterval(..., 100)
PollMs == 100
\* setTimeout(() => clearInterval(interval), 10000)
TimeoutMs == 10000

Calls == 1..NumCalls

\* ------------------------------------------------------------- file names
\* A file name is a sequence of one-character strings.
Chars == {".", "p", "P", "d", "D", "f", "F", "x"}

ResumePdf == <<"r", "e", "s", "u", "m", "e", ".", "p", "d", "f">>
ResumePng == <<"r", "e", "s", "u", "m", "e", ".", "p", "n", "g">>
UpperResumePdf == <<"R", "e", "s", "u", "m", "e", ".", "P", "D", "F">>
UpperResumePng == <<"R", "e", "s", "u", "m", "e", ".", "p", "n", "g">>
Notes == <<"n", "o", "t", "e", "s">>
NotesPng == <<"n", "o", "t", "e", "s", ".", "p", "n", "g">>

\* The i flag of the regular expression: both cases of a letter match.
Lower(ch) ==
    CASE ch = "P" -> "p"
      [] ch = "D" -> "d"
      [] ch = "F" -> "f"
      [] OTHER -> ch

\* A mutant of MatchesPdfSuffix: the regular expression without its i flag.
MatchesPdfSuffix_CaseSensitive(name) ==
    /\ Len(name) >= 4
    /\ SubSeq(name, Len(name) - 3, Len(name)) = <<".", "p", "d", "f">>

\* /\.pdf$/i : the name ends with ".pdf" in any mix of cases.
MatchesPdfSuffix(name) ==
    /\ Len(name) >= 4
    /\ [i \in 1..4 |-> Lower(name[Len(name) - 4 + i])] = <<".", "p", "d", "f">>

\* file.name.replace(/\.pdf$/i, "")
StripPdf(name) ==
    IF MatchesPdfSuffix(name) THEN SubSeq(name, 1, Len(name) - 4) ELSE name

\* `${originalName}.png`
PngName(name) == StripPdf(name) \o <<".", "p", "n", "g">>

\* --------------------------------------------------------------- records
\* JavaScript null as the value of PdfConversionResult.file.
Null == [kind |-> "null"]

\* The input File objects handed to convertPdfToImage.
Files ==
    { [name |-> UpperResumePdf, bytes |-> "docA"],
      [name |-> Notes, bytes |-> "docB"] }

NoFile == [name |-> <<>>, bytes |-> "none"]

\* A canvas before anything is drawn on it, and after page.render.
Blank == [bytes |-> "blank", scale |-> 0]
Rendered(f) == [bytes |-> f.bytes, scale |-> Scale]

\* new File([blob], `${originalName}.png`, { type: "image/png" })
ImageFile(b, f) ==
    [kind |-> "File", name |-> PngName(f.name), type |-> "image/png", content |-> b]

\* URL.createObjectURL(blob): a fresh URL at every call.
ObjectUrl(n) == "blob:" \o ToString(n)

\* resolve({ imageUrl, file: imageFile })
SuccessResult(url, imageFile) == [imageUrl |-> url, file |-> imageFile]

\* { imageUrl: "", file: null, error: `Failed to convert PDF: ${...}` }
CaughtResult(msg) ==
    [imageUrl |-> "", file |-> Null, error |-> "Failed to convert PDF: " \o msg]

\* A mutant of NoContextResult: the early return carries no message.
NoContextResult_NoError == [imageUrl |-> "", file |-> Null]

\* { imageUrl: "", file: null, error: "Failed to get 2D context from canvas." }
NoContextResult ==
    [imageUrl |-> "", file |-> Null, error |-> "Failed to get 2D context from canvas."]

\* { imageUrl: "", file: null, error: "Failed to create image blob from canvas." }
NoBlobResult ==
    [imageUrl |-> "", file |-> Null, error |-> "Failed to create image blob from canvas."]

NoResult == [kind |-> "none"]

VARIABLES
    \* ---- pdf2img.ts
    hasWindow,    \* typeof window !== "undefined"
    pdfjsLib,     \* module variable pdfjsLib: "null" or "lib"
    loadPromise,  \* module variable loadPromise: "null", "pending", "fulfilled", "rejected"
    loadPc,       \* position of the async function assigned to loadPromise
    workerSrc,    \* lib.GlobalWorkerOptions.workerSrc
    importCount,  \* number of import("pdfjs-dist") evaluations
    warnings,     \* number of console.warn calls
    pc,           \* position of each convertPdfToImage call
    file,         \* argument of each call
    awaited,      \* what the call's loadPdfJs() returned: "envError" (it threw),
                  \* "lib" (cached handle), "joined" (existing loadPromise),
                  \* "started" (the loadPromise it created)
    canvases,     \* content of each canvas element
    blob,         \* bitmap handed to the encoder by canvas.toBlob
    promise,      \* state of the promise convertPdfToImage returned
    result,       \* value that promise was fulfilled with
    uncaught,     \* calls whose toBlob callback threw (reported as uncaught)
    urlCount,     \* number of object URLs created
    \* ---- usePuterStore
    puterGlobal,  \* window.puter is defined
    puterReady,   \* store field puterReady
    auth,         \* store fields auth.user and auth.isAuthenticated
    interval,     \* the interval of init: "none", "active", "cleared"
    nextTickAt,   \* due time of the next interval callback, ms after init()
    timeoutFired, \* the setTimeout callback of init has run
    initChecks,   \* number of checkAuthStatus() calls made by the interval callback
    sdkSession,   \* the SDK's signed-in user, or "none"
    op,           \* position of each asynchronous auth operation in flight
    \* ---- output name derivation, on its own
    nameIn,       \* file.name
    nameOut       \* name of the File built from it

storeVars ==
    << puterGlobal, puterReady, auth, interval, nextTickAt, timeoutFired,
       initChecks, sdkSession, op >>
nameVars == << nameIn, nameOut >>
restVars == << storeVars, nameVars >>

vars ==
    << hasWindow, pdfjsLib, loadPromise, loadPc, workerSrc, importCount, warnings,
       pc, file, awaited, canvases, blob, promise, result, uncaught, urlCount,
       storeVars, nameVars >>

\* Slot 0 is the checkAuthStatus() call made by init's interval callback.
Ops == 0..NumOps
UserOps == 1..NumOps
Users == {"alice", "bob"}

\* The store as create() returns it, and no name under derivation.
StoreFresh ==
    /\ puterReady = FALSE
    /\ auth = [user |-> "null", isAuthenticated |-> FALSE]
    /\ interval = "none"
    /\ nextTickAt = 0
    /\ timeoutFired = FALSE
    /\ initChecks = 0
    /\ op = [o \in Ops |-> "free"]

NameIdle == nameIn = <<>> /\ nameOut = <<>>

loaderVars == << pdfjsLib, loadPromise, loadPc, workerSrc, importCount, warnings >>
callVars == << pc, file, awaited, canvases, blob, promise, result, uncaught, urlCount >>

PdfFresh ==
    /\ pdfjsLib = "null"
    /\ loadPromise = "null"
    /\ loadPc = "none"
    /\ workerSrc = "unset"
    /\ importCount = 0
    /\ warnings = 0
    /\ pc = [c \in Calls |-> "idle"]
    /\ file = [c \in Calls |-> NoFile]
    /\ awaited = [c \in Calls |-> "none"]
    /\ canvases = [c \in Calls |-> Blank]
    /\ blob = [c \in Calls |-> Blank]
    /\ promise = [c \in Calls |-> "none"]
    /\ result = [c \in Calls |-> NoResult]
    /\ uncaught = {}
    /\ urlCount = 0

Init ==
    /\ hasWindow \in BOOLEAN
    /\ PdfFresh
    /\ StoreFresh
    /\ puterGlobal = FALSE
    /\ sdkSession = "none"
    /\ NameIdle

\* ---------------------------------------------------------------- loadPdfJs
\* A mutant of MustStartLoad: the in-flight promise is not consulted.
MustStartLoad_IgnoresPromise == pdfjsLib = "null"

\* A mutant of MustStartLoad: a rejected promise is replaced by a new attempt.
MustStartLoad_RetriesFailure ==
    pdfjsLib = "null" /\ loadPromise \in {"null", "rejected"}

\* Falling through `if (pdfjsLib) return pdfjsLib; if (loadPromise) return loadPromise;`
MustStartLoad == pdfjsLib = "null" /\ loadPromise = "null"

\* loadPdfJs(), run synchronously up to its first await; c awaits the outcome.
LoadPdfJs(c) ==
    IF ~hasWindow
    THEN /\ awaited' = [awaited EXCEPT ![c] = "envError"]
         /\ UNCHANGED loaderVars
    ELSE IF MustStartLoad
    THEN /\ loadPromise' = "pending"
         /\ loadPc' = "importMain"
         /\ importCount' = importCount + 1
         /\ awaited' = [awaited EXCEPT ![c] = "started"]
         /\ UNCHANGED << pdfjsLib, workerSrc, warnings >>
    ELSE /\ awaited' = [awaited EXCEPT ![c] = IF pdfjsLib # "null" THEN "lib" ELSE "joined"]
         /\ UNCHANGED loaderVars

\* await import("pdfjs-dist") completes; import("pdfjs-dist/build/pdf.worker.mjs") starts.
ImportMainResolves ==
    /\ loadPc = "importMain"
    /\ loadPc' = "importWorker"
    /\ UNCHANGED << pdfjsLib, loadPromise, workerSrc, importCount, warnings >>
    /\ UNCHANGED << hasWindow, restVars, callVars >>

\* await import("pdfjs-dist") fails: the async function throws, loadPromise rejects.
ImportMainRejects ==
    /\ loadPc = "importMain"
    /\ loadPc' = "failed"
    /\ loadPromise' = "rejected"
    /\ UNCHANGED << pdfjsLib, workerSrc, importCount, warnings >>
    /\ UNCHANGED << hasWindow, restVars, callVars >>

\* The worker module resolves: workerSrc from the package, handle cached.
ImportWorkerResolves ==
    /\ loadPc = "importWorker"
    /\ workerSrc' = "package"
    /\ pdfjsLib' = "lib"
    /\ loadPromise' = "fulfilled"
    /\ loadPc' = "done"
    /\ UNCHANGED << importCount, warnings >>
    /\ UNCHANGED << hasWindow, restVars, callVars >>

\* A mutant of ImportWorkerRejects: the resolution failure aborts initialization.
ImportWorkerRejects_Aborts ==
    /\ loadPc = "importWorker"
    /\ loadPromise' = "rejected"
    /\ loadPc' = "failed"
    /\ UNCHANGED << pdfjsLib, workerSrc, importCount, warnings >>
    /\ UNCHANGED << hasWindow, restVars, callVars >>

\* The try block around the worker import throws (the module does not
\* resolve): catch block, warning, static fallback path, handle cached.
ImportWorkerRejects ==
    /\ loadPc = "importWorker"
    /\ warnings' = warnings + 1
    /\ workerSrc' = "/pdf.worker.min.mjs"
    /\ pdfjsLib' = "lib"
    /\ loadPromise' = "fulfilled"
    /\ loadPc' = "done"
    /\ UNCHANGED importCount
    /\ UNCHANGED << hasWindow, restVars, callVars >>

\* -------------------------------------------------------- convertPdfToImage
\* A mutant of CanvasOf: one canvas element kept at module level and reused.
CanvasOf_Shared(c) == 1

\* document.createElement("canvas"): every call creates its own element.
CanvasOf(c) == c

\* err?.message of what each awaited step throws.
ErrorAt(at) ==
    CASE at = "awaitBuffer" -> "The requested file could not be read."
      [] at = "awaitDoc" -> "Invalid PDF structure."
      [] at = "awaitPage" -> "Invalid page request."
      [] at = "awaitRender" -> "Rendering cancelled."
      [] OTHER -> "Unknown error"

EnvMessage == "PDF conversion can only run in the browser."
ImportMessage == "Failed to fetch dynamically imported module"

\* The returned promise is fulfilled with r: a return inside the async function,
\* or resolve(r) inside the toBlob callback.
Fulfil(c, r) ==
    /\ promise' = [promise EXCEPT ![c] = "fulfilled"]
    /\ result' = [result EXCEPT ![c] = r]
    /\ pc' = [pc EXCEPT ![c] = "done"]

\* catch (err) { ... return { imageUrl: "", file: null, error } }
Catch(c, msg) == Fulfil(c, CaughtResult(msg))

\* convertPdfToImage(f) is invoked and runs to `await loadPdfJs()`.
Call(c, f) ==
    /\ pc[c] = "idle"
    /\ file' = [file EXCEPT ![c] = f]
    /\ promise' = [promise EXCEPT ![c] = "pending"]
    /\ pc' = [pc EXCEPT ![c] = "awaitLoad"]
    /\ LoadPdfJs(c)
    /\ UNCHANGED << hasWindow, restVars, canvases, blob, result, uncaught, urlCount >>

\* `await loadPdfJs()` yields the engine; file.arrayBuffer() starts.
LoadResumes(c) ==
    /\ pc[c] = "awaitLoad"
    /\ \/ awaited[c] = "lib"
       \/ awaited[c] \in {"started", "joined"} /\ loadPromise = "fulfilled"
    /\ pc' = [pc EXCEPT ![c] = "awaitBuffer"]
    /\ UNCHANGED << hasWindow, restVars, loaderVars, file, awaited, canvases, blob,
                    promise, result, uncaught, urlCount >>

\* `await loadPdfJs()` throws: no window, or the shared load attempt failed.
LoadThrows(c) ==
    /\ pc[c] = "awaitLoad"
    /\ \/ awaited[c] = "envError" /\ Catch(c, EnvMessage)
       \/ /\ awaited[c] \in {"started", "joined"}
          /\ loadPromise = "rejected"
          /\ Catch(c, ImportMessage)
    /\ UNCHANGED << hasWindow, restVars, loaderVars, file, awaited, canvases, blob, uncaught, urlCount >>

\* The bytes arrive; lib.getDocument({ data }) starts.
ArrayBufferResolves(c) ==
    /\ pc[c] = "awaitBuffer"
    /\ pc' = [pc EXCEPT ![c] = "awaitDoc"]
    /\ UNCHANGED << hasWindow, restVars, loaderVars, file, awaited, canvases, blob,
                    promise, result, uncaught, urlCount >>

\* The document opens; pdf.getPage(1) starts.
DocumentResolves(c) ==
    /\ pc[c] = "awaitDoc"
    /\ pc' = [pc EXCEPT ![c] = "awaitPage"]
    /\ UNCHANGED << hasWindow, restVars, loaderVars, file, awaited, canvases, blob,
                    promise, result, uncaught, urlCount >>

\* The page arrives, a canvas is created and sized, page.render starts.
PageResolves(c) ==
    /\ pc[c] = "awaitPage"
    /\ canvases' = [canvases EXCEPT ![CanvasOf(c)] = Blank]
    /\ pc' = [pc EXCEPT ![c] = "awaitRender"]
    /\ UNCHANGED << hasWindow, restVars, loaderVars, file, awaited, blob,
                    promise, result, uncaught, urlCount >>

\* The page arrives but canvas.getContext("2d") is null.
PageResolvesNoContext(c) ==
    /\ pc[c] = "awaitPage"
    /\ Fulfil(c, NoContextResult)
    /\ UNCHANGED << hasWindow, restVars, loaderVars, file, awaited, canvases, blob, uncaught, urlCount >>

\* An awaited step rejects (or the synchronous code after it throws): catch block.
StepRejects(c) ==
    /\ pc[c] \in {"awaitBuffer", "awaitDoc", "awaitPage", "awaitRender"}
    /\ Catch(c, ErrorAt(pc[c]))
    /\ UNCHANGED << hasWindow, restVars, loaderVars, file, awaited, canvases, blob, uncaught, urlCount >>

\* Rendering completes; the promise executor calls canvas.toBlob, which takes
\* a copy of the bitmap and schedules the callback.
RenderResolves(c) ==
    /\ pc[c] = "awaitRender"
    /\ canvases' = [canvases EXCEPT ![CanvasOf(c)] = Rendered(file[c])]
    /\ blob' = [blob EXCEPT ![c] = canvases'[CanvasOf(c)]]
    /\ pc' = [pc EXCEPT ![c] = "awaitBlob"]
    /\ UNCHANGED << hasWindow, restVars, loaderVars, file, awaited, promise, result, uncaught, urlCount >>

\* Rendering completes; canvas.toBlob throws inside the promise executor. The
\* new promise rejects, and since it is returned without await the catch block
\* is not entered: the promise of convertPdfToImage rejects.
RenderResolvesToBlobThrows(c) ==
    /\ pc[c] = "awaitRender"
    /\ canvases' = [canvases EXCEPT ![CanvasOf(c)] = Rendered(file[c])]
    /\ promise' = [promise EXCEPT ![c] = "rejected"]
    /\ pc' = [pc EXCEPT ![c] = "done"]
    /\ UNCHANGED << hasWindow, restVars, loaderVars, file, awaited, blob, result, uncaught, urlCount >>

\* The encoder calls back with null.
BlobCallbackNull(c) ==
    /\ pc[c] = "awaitBlob"
    /\ Fulfil(c, NoBlobResult)
    /\ UNCHANGED << hasWindow, restVars, loaderVars, file, awaited, canvases, blob, uncaught, urlCount >>

\* The encoder calls back with a blob: File, object URL, resolve.
BlobCallback(c) ==
    /\ pc[c] = "awaitBlob"
    /\ urlCount' = urlCount + 1
    /\ Fulfil(c, SuccessResult(ObjectUrl(urlCount'), ImageFile(blob[c], file[c])))
    /\ UNCHANGED << hasWindow, restVars, loaderVars, file, awaited, canvases, blob, uncaught >>

\* The encoder calls back with a blob and new File or URL.createObjectURL
\* throws: the callback ends before resolve, nothing catches the error.
BlobCallbackThrows(c) ==
    /\ pc[c] = "awaitBlob"
    /\ uncaught' = uncaught \cup {c}
    /\ pc' = [pc EXCEPT ![c] = "callbackThrew"]
    /\ UNCHANGED << hasWindow, restVars, loaderVars, file, awaited, canvases, blob,
                    promise, result, urlCount >>

LoaderStep ==
    \/ ImportMainResolves
    \/ ImportMainRejects
    \/ ImportWorkerResolves
    \/ ImportWorkerRejects

CallStep(c) ==
    \/ \E f \in Files : Call(c, f)
    \/ LoadResumes(c)
    \/ LoadThrows(c)
    \/ ArrayBufferResolves(c)
    \/ DocumentResolves(c)
    \/ PageResolves(c)
    \/ PageResolvesNoContext(c)
    \/ StepRejects(c)
    \/ RenderResolves(c)
    \/ RenderResolvesToBlobThrows(c)
    \/ BlobCallbackNull(c)
    \/ BlobCallback(c)
    \/ BlobCallbackThrows(c)

Next == LoaderStep \/ \E c \in Calls : CallStep(c)

Spec == Init /\ [][Next]_vars

\* Every awaited external step eventually completes or fails, the encoder
\* eventually calls back, and the event loop runs every ready continuation.
FairSpec == Spec /\ WF_vars(LoaderStep) /\ \A c \in Calls : WF_vars(CallStep(c))

\* ------------------------------------------------------------ usePuterStore
pdfVars ==
    << pdfjsLib, loadPromise, loadPc, workerSrc, importCount, warnings,
       pc, file, awaited, canvases, blob, promise, result, uncaught, urlCount >>

\* getPuter(): typeof window !== "undefined" && window.puter ? window.puter : null
GetPuter == hasWindow /\ puterGlobal

\* set({ auth: { ...get().auth, user, isAuthenticated: true } })
SetAuthenticated(user) == auth' = [user |-> user, isAuthenticated |-> TRUE]

\* The platform SDK script finishes loading and defines window.puter.
PuterLoads ==
    /\ hasWindow
    /\ ~puterGlobal
    /\ puterGlobal' = TRUE
    /\ UNCHANGED << hasWindow, pdfVars, nameVars, puterReady, auth, interval,
                    nextTickAt, timeoutFired, initChecks, sdkSession, op >>

\* init(): setInterval(..., 100) and setTimeout(..., 10000).
InitCall ==
    /\ interval = "none"
    /\ interval' = "active"
    /\ nextTickAt' = PollMs
    /\ UNCHANGED << hasWindow, pdfVars, nameVars, puterGlobal, puterReady, auth,
                    timeoutFired, initChecks, sdkSession, op >>

\* A mutant of Tick: the interval is not cleared when the global is observed.
Tick_KeepsPolling ==
    /\ interval = "active"
    /\ nextTickAt <= TimeoutMs
    /\ nextTickAt' = nextTickAt + PollMs
    /\ IF GetPuter
       THEN /\ puterReady' = TRUE
            /\ initChecks' = initChecks + 1
            /\ op' = [op EXCEPT ![0] = "ca:isSignedIn"]
       ELSE UNCHANGED << puterReady, initChecks, op >>
    /\ UNCHANGED << hasWindow, pdfVars, nameVars, puterGlobal, auth, interval,
                    timeoutFired, sdkSession >>

\* The interval callback. A callback due no later than the timeout may run
\* before it; checkAuthStatus() runs to its first await inside the callback.
Tick ==
    /\ interval = "active"
    /\ nextTickAt <= TimeoutMs
    /\ IF GetPuter
       THEN /\ interval' = "cleared"
            /\ puterReady' = TRUE
            /\ initChecks' = initChecks + 1
            /\ op' = [op EXCEPT ![0] = "ca:isSignedIn"]
            /\ UNCHANGED nextTickAt
       ELSE /\ nextTickAt' = nextTickAt + PollMs
            /\ UNCHANGED << interval, puterReady, initChecks, op >>
    /\ UNCHANGED << hasWindow, pdfVars, nameVars, puterGlobal, auth,
                    timeoutFired, sdkSession >>

\* The timeout callback: clearInterval(interval). It runs once no interval
\* callback is due earlier.
Timeout ==
    /\ interval # "none"
    /\ ~timeoutFired
    /\ interval = "active" => nextTickAt >= TimeoutMs
    /\ timeoutFired' = TRUE
    /\ interval' = "cleared"
    /\ UNCHANGED << hasWindow, pdfVars, nameVars, puterGlobal, puterReady, auth,
                    nextTickAt, initChecks, sdkSession, op >>

\* auth.checkAuthStatus() called by the application: returns false at once
\* without the SDK, else awaits puter.auth.isSignedIn().
CheckAuthStart(o) ==
    /\ op[o] = "free"
    /\ op' = [op EXCEPT ![o] = IF GetPuter THEN "ca:isSignedIn" ELSE "free"]
    /\ UNCHANGED << hasWindow, pdfVars, nameVars, puterGlobal, puterReady, auth,
                    interval, nextTickAt, timeoutFired, initChecks, sdkSession >>

\* isSignedIn() resolves: true starts getUser(), false is returned.
CheckAuthSignedIn(o) ==
    /\ op[o] = "ca:isSignedIn"
    /\ op' = [op EXCEPT ![o] = IF sdkSession # "none" THEN "ca:getUser" ELSE "free"]
    /\ UNCHANGED << hasWindow, pdfVars, nameVars, puterGlobal, puterReady, auth,
                    interval, nextTickAt, timeoutFired, initChecks, sdkSession >>

\* getUser() resolves with the signed-in user: set(...), return true.
CheckAuthGetUser(o) ==
    /\ op[o] = "ca:getUser"
    /\ sdkSession # "none"
    /\ SetAuthenticated(sdkSession)
    /\ op' = [op EXCEPT ![o] = "free"]
    /\ UNCHANGED << hasWindow, pdfVars, nameVars, puterGlobal, puterReady,
                    interval, nextTickAt, timeoutFired, initChecks, sdkSession >>

\* isSignedIn() or getUser() rejects: catch { return false }.
CheckAuthCatch(o) ==
    /\ op[o] \in {"ca:isSignedIn", "ca:getUser"}
    /\ op' = [op EXCEPT ![o] = "free"]
    /\ UNCHANGED << hasWindow, pdfVars, nameVars, puterGlobal, puterReady, auth,
                    interval, nextTickAt, timeoutFired, initChecks, sdkSession >>

\* auth.refreshUser(): await getPuter()?.auth.getUser(). Without the SDK the
\* awaited value is undefined.
RefreshUserStart(o) ==
    /\ o \in UserOps
    /\ op[o] = "free"
    /\ op' = [op EXCEPT ![o] = IF GetPuter THEN "ru:getUser" ELSE "ru:undefined"]
    /\ UNCHANGED << hasWindow, pdfVars, nameVars, puterGlobal, puterReady, auth,
                    interval, nextTickAt, timeoutFired, initChecks, sdkSession >>

\* refreshUser resumes with undefined and stores it.
RefreshUserUndefined(o) ==
    /\ op[o] = "ru:undefined"
    /\ SetAuthenticated("undefined")
    /\ op' = [op EXCEPT ![o] = "free"]
    /\ UNCHANGED << hasWindow, pdfVars, nameVars, puterGlobal, puterReady,
                    interval, nextTickAt, timeoutFired, initChecks, sdkSession >>

\* refreshUser resumes with the user getUser() resolved with and stores it.
RefreshUserResolves(o) ==
    /\ op[o] = "ru:getUser"
    /\ sdkSession # "none"
    /\ SetAuthenticated(sdkSession)
    /\ op' = [op EXCEPT ![o] = "free"]
    /\ UNCHANGED << hasWindow, pdfVars, nameVars, puterGlobal, puterReady,
                    interval, nextTickAt, timeoutFired, initChecks, sdkSession >>

\* getUser() rejects: refreshUser rejects before its set(...).
RefreshUserRejects(o) ==
    /\ op[o] = "ru:getUser"
    /\ op' = [op EXCEPT ![o] = "free"]
    /\ UNCHANGED << hasWindow, pdfVars, nameVars, puterGlobal, puterReady, auth,
                    interval, nextTickAt, timeoutFired, initChecks, sdkSession >>

\* auth.signIn(): getPuter()?.auth.signIn().
SignInStart(o) ==
    /\ o \in UserOps
    /\ op[o] = "free"
    /\ op' = [op EXCEPT ![o] = IF GetPuter THEN "signIn" ELSE "free"]
    /\ UNCHANGED << hasWindow, pdfVars, nameVars, puterGlobal, puterReady, auth,
                    interval, nextTickAt, timeoutFired, initChecks, sdkSession >>

\* The SDK's sign-in completes for user u, or is abandoned; the store is not written.
SignInSettles(o, u) ==
    /\ op[o] = "signIn"
    /\ sdkSession' = u
    /\ op' = [op EXCEPT ![o] = "free"]
    /\ UNCHANGED << hasWindow, pdfVars, nameVars, puterGlobal, puterReady, auth,
                    interval, nextTickAt, timeoutFired, initChecks >>

\* auth.signOut(): getPuter()?.auth.signOut().
SignOutStart(o) ==
    /\ o \in UserOps
    /\ op[o] = "free"
    /\ op' = [op EXCEPT ![o] = IF GetPuter THEN "signOut" ELSE "free"]
    /\ UNCHANGED << hasWindow, pdfVars, nameVars, puterGlobal, puterReady, auth,
                    interval, nextTickAt, timeoutFired, initChecks, sdkSession >>

\* The SDK's sign-out completes; the store is not written.
SignOutSettles(o) ==
    /\ op[o] = "signOut"
    /\ sdkSession' = "none"
    /\ op' = [op EXCEPT ![o] = "free"]
    /\ UNCHANGED << hasWindow, pdfVars, nameVars, puterGlobal, puterReady, auth,
                    interval, nextTickAt, timeoutFired, initChecks >>

StoreInit ==
    /\ hasWindow \in BOOLEAN
    /\ puterGlobal \in BOOLEAN
    /\ puterGlobal => hasWindow
    /\ sdkSession \in {"none"} \cup Users
    /\ ~hasWindow => sdkSession = "none"
    /\ PdfFresh
    /\ StoreFresh
    /\ NameIdle

StoreNext ==
    \/ PuterLoads
    \/ InitCall
    \/ Tick
    \/ Timeout
    \/ \E o \in UserOps : CheckAuthStart(o)
    \/ \E o \in Ops : CheckAuthSignedIn(o)
    \/ \E o \in Ops : CheckAuthGetUser(o)
    \/ \E o \in Ops : CheckAuthCatch(o)
    \/ \E o \in UserOps : RefreshUserStart(o)
    \/ \E o \in UserOps : RefreshUserUndefined(o)
    \/ \E o \in UserOps : RefreshUserResolves(o)
    \/ \E o \in UserOps : RefreshUserRejects(o)
    \/ \E o \in UserOps : SignInStart(o)
    \/ \E o \in UserOps, u \in Users \cup {sdkSession} : SignInSettles(o, u)
    \/ \E o \in UserOps : SignOutStart(o)
    \/ \E o \in UserOps : SignOutSettles(o)

StoreSpec == StoreInit /\ [][StoreNext]_vars

\* ------------------------------------------------------ name derivation alone
\* The names tried: every name of 1..MaxNameLen characters, and the three
\* names the specification gives.
GivenNames == {ResumePdf, UpperResumePdf, Notes}

NameInit ==
    /\ hasWindow = TRUE
    /\ puterGlobal = FALSE
    /\ sdkSession = "none"
    /\ PdfFresh
    /\ StoreFresh
    /\ \/ \E n \in 1..MaxNameLen : nameIn \in [1..n -> Chars]
       \/ nameIn \in GivenNames
    /\ nameOut = <<>>

\* const originalName = file.name.replace(/\.pdf$/i, ""); new File(..., `${originalName}.png`)
DeriveName ==
    /\ nameOut = <<>>
    /\ nameOut' = PngName(nameIn)
    /\ UNCHANGED << hasWindow, pdfVars, storeVars, nameIn >>

NameNext == DeriveName

NameSpec == NameInit /\ [][NameNext]_vars

\* ================================================================== claims
\* The two shapes of a PdfConversionResult.
IsSuccess(r) ==
    /\ DOMAIN r = {"imageUrl", "file"}
    /\ r.file # Null
    /\ r.file.kind = "File"
    /\ r.imageUrl # ""

IsFailure(r) ==
    /\ DOMAIN r = {"imageUrl", "file", "error"}
    /\ r.imageUrl = ""
    /\ r.file = Null
    /\ r.error # ""

Settled(c) == promise[c] \in {"fulfilled", "rejected"}

\* What belongs to one convertPdfToImage call: its position, argument,
\* canvas, bitmap, promise and result.
Local(c) == << pc[c], file[c], canvases[CanvasOf(c)], blob[c], promise[c], result[c] >>

\* C1: whatever the number of callers and their interleaving, at most one
\* import("pdfjs-dist") is ever evaluated, and while that load is in flight
\* every caller waiting for the engine waits on that one attempt: the caller
\* that started it or callers that were handed the existing loadPromise.
C1_SingleLoadAttempt ==
    /\ importCount <= 1
    /\ loadPromise = "pending" =>
        /\ importCount = 1
        /\ \A c \in Calls : pc[c] = "awaitLoad" => awaited[c] \in {"started", "joined"}
        /\ Cardinality({c \in Calls : awaited[c] = "started"}) = 1

\* Every caller is suspended on the same in-flight load.
C1_Witness ==
    /\ loadPromise = "pending"
    /\ importCount = 1
    /\ \A c \in Calls : pc[c] = "awaitLoad"
    /\ \E c \in Calls : awaited[c] = "joined"

\* C2: every result convertPdfToImage is fulfilled with has exactly one of
\* the two shapes: success (a File, a non-empty imageUrl, no error key) or
\* failure (imageUrl "", file null, a non-empty error string).
C2_ResultShape ==
    \A c \in Calls :
        promise[c] = "fulfilled" => (IsSuccess(result[c]) # IsFailure(result[c]))

\* One call has succeeded and another has failed.
C2_Witness ==
    \E c, d \in Calls :
        /\ promise[c] = "fulfilled" /\ IsSuccess(result[c])
        /\ promise[d] = "fulfilled" /\ IsFailure(result[d])

\* C3: no failure escapes convertPdfToImage: its promise never rejects and no
\* error raised while encoding goes uncaught.
C3_NoFailureEscapes ==
    \A c \in Calls : promise[c] # "rejected" /\ c \notin uncaught

\* C4: once the load attempt has failed it stays failed, no later call
\* starts another import (a call made then is handed the rejected promise),
\* and every call that has returned has returned a failure result.
C4_NoRetryAfterFailure ==
    /\ [](loadPromise = "rejected" =>
            /\ importCount = 1
            /\ pdfjsLib = "null"
            /\ \A c \in Calls :
                /\ pc[c] \in {"idle", "awaitLoad", "done"}
                /\ pc[c] = "done" => promise[c] = "fulfilled" /\ IsFailure(result[c]))
    /\ [][loadPromise = "rejected" =>
            /\ loadPromise' = "rejected"
            /\ importCount' = importCount
            /\ \A c \in Calls :
                pc[c] = "idle" /\ pc'[c] # "idle" => awaited'[c] = "joined"]_vars

\* The load failed, the call that started it returned a failure, and so did
\* a call that was handed the existing promise.
C4_Witness ==
    /\ loadPromise = "rejected"
    /\ importCount = 1
    /\ \E c, d \in Calls :
        /\ awaited[c] = "started" /\ pc[c] = "done" /\ IsFailure(result[c])
        /\ awaited[d] = "joined" /\ pc[d] = "done" /\ IsFailure(result[d])

\* C5: however the import of the worker module ends, the initializer
\* completes and caches the handle; when it fails, the worker source is the
\* static path "/pdf.worker.min.mjs" and exactly one warning was emitted.
C5_WorkerFallback ==
    /\ [](workerSrc = "/pdf.worker.min.mjs" =>
            warnings = 1 /\ pdfjsLib = "lib" /\ loadPromise = "fulfilled")
    /\ [][loadPc = "importWorker" /\ loadPc' # "importWorker" =>
            /\ loadPromise' = "fulfilled"
            /\ pdfjsLib' = "lib"
            /\ \/ workerSrc' = "package" /\ warnings' = warnings
               \/ workerSrc' = "/pdf.worker.min.mjs" /\ warnings' = warnings + 1]_vars

\* A conversion succeeded on the fallback worker path.
C5_Witness ==
    /\ workerSrc = "/pdf.worker.min.mjs"
    /\ warnings = 1
    /\ \E c \in Calls : promise[c] = "fulfilled" /\ IsSuccess(result[c])

PdfExtensions ==
    { <<".", a, b, c>> : a \in {"p", "P"}, b \in {"d", "D"}, c \in {"f", "F"} }

EndsWith(name, e) ==
    Len(name) >= Len(e) /\ SubSeq(name, Len(name) - Len(e) + 1, Len(name)) = e

\* C6: the output name is a stem followed by ".png"; the stem is the input
\* name without its ".pdf" extension, in any mix of cases, when it ends with
\* one, and the whole input name otherwise. "resume.pdf" gives "resume.png",
\* "Resume.PDF" gives "Resume.png" and "notes" gives "notes.png".
C6_OutputName ==
    nameOut # <<>> =>
        LET stem == SubSeq(nameOut, 1, Len(nameOut) - 4) IN
        /\ EndsWith(nameOut, <<".", "p", "n", "g">>)
        /\ \/ \E e \in PdfExtensions : nameIn = stem \o e
           \/ stem = nameIn /\ \A e \in PdfExtensions : ~EndsWith(nameIn, e)
        /\ nameIn = ResumePdf => nameOut = ResumePng
        /\ nameIn = UpperResumePdf => nameOut = UpperResumePng
        /\ nameIn = Notes => nameOut = NotesPng

\* The upper-case extension has been stripped.
C6_Witness == nameIn = UpperResumePdf /\ nameOut = UpperResumePng

\* C7: each successful call's File holds the rendering of its own document
\* under its own derived name, object URLs of different calls differ, a step
\* changes the local state of at most one call, a settled call's promise and
\* result never change, and once the engine handle is cached neither it nor
\* loadPromise nor the worker source is written again.
C7_IndependentCalls ==
    /\ [](\A c \in Calls :
            promise[c] = "fulfilled" /\ IsSuccess(result[c]) =>
                /\ result[c].file.content = Rendered(file[c])
                /\ result[c].file.name = PngName(file[c].name)
                /\ \A d \in Calls \ {c} :
                    promise[d] = "fulfilled" => result[d].imageUrl # result[c].imageUrl)
    /\ [][/\ \A c, d \in Calls :
                Local(c)' # Local(c) /\ Local(d)' # Local(d) => c = d
          /\ \A c \in Calls :
                Settled(c) => promise'[c] = promise[c] /\ result'[c] = result[c]
          /\ pdfjsLib # "null" =>
                UNCHANGED << pdfjsLib, loadPromise, workerSrc >>]_vars

\* Two calls on the same file have both succeeded.
C7_Witness ==
    \E c, d \in Calls :
        /\ c # d
        /\ file[c] = file[d]
        /\ promise[c] = "fulfilled" /\ IsSuccess(result[c])
        /\ promise[d] = "fulfilled" /\ IsSuccess(result[d])

\* C8: under FairSpec (every awaited step completes or fails, the encoder
\* calls back) the promise of every call that was made is eventually settled.
C8_EveryCallSettles ==
    \A c \in Calls : (promise[c] = "pending") ~> (promise[c] # "pending")

\* C9: after init(), puterReady becomes true only in an interval callback
\* that observed the global, which clears the interval and starts
\* checkAuthStatus; that happens at most once; the timeout clears the
\* interval; a cleared interval stays cleared; puterReady never reverts; and
\* after a timeout that found puterReady false it stays false.
C9_PollingStops ==
    /\ [](/\ initChecks <= 1
          /\ puterReady <=> initChecks = 1
          /\ puterReady => interval = "cleared"
          /\ timeoutFired => interval = "cleared"
          /\ nextTickAt <= TimeoutMs + PollMs)
    /\ [][/\ ~puterReady /\ puterReady' =>
                /\ GetPuter
                /\ interval = "active" /\ interval' = "cleared"
                /\ ~timeoutFired
                /\ initChecks' = initChecks + 1
                /\ op'[0] = "ca:isSignedIn"
          /\ initChecks' # initChecks => ~puterReady /\ puterReady'
          /\ puterReady => puterReady'
          /\ interval = "cleared" => interval' = "cleared" /\ nextTickAt' = nextTickAt
          /\ timeoutFired => timeoutFired' /\ puterReady' = puterReady]_vars

\* The global was observed by a callback, and the timeout has fired since.
C9_Witness ==
    /\ puterReady
    /\ initChecks = 1
    /\ interval = "cleared"
    /\ timeoutFired
    /\ nextTickAt > PollMs

\* C10: auth.isAuthenticated is true only if auth.user is a user record the
\* SDK returned.
C10_AuthenticatedHasUser == auth.isAuthenticated => auth.user \in Users

====
